---- MODULE Spec2Model ----
(***************************************************************************)
(* Sparse EM engine of enstop's pLSA (src/enstop/plsa.py): the E-step, the *)
(* M-step, the constrained (refit) M-step, the log-likelihood evaluator    *)
(* and the two driver loops plsa_fit / plsa_refit.                         *)
(*                                                                         *)
(* Numbers.  The kernels work on float64.  The model computes with exact   *)
(* rationals <<numerator, denominator>> in lowest terms, so a row sum of 1 *)
(* is exactly 1.  Two non-numbers exist: NaN (the outcome of a division by *)
(* zero) and Over (a value whose numerator or denominator does not fit     *)
(* Cap; a step that would produce it is not explored).                     *)
(*                                                                         *)
(* Log-likelihoods.  log_likelihood returns sum x*log(p) = log(prod p^x).  *)
(* The model keeps the argument of the logarithm, the likelihood           *)
(* A = prod p^x, and every comparison of logarithms is carried out on the  *)
(* likelihoods: log A > 0 iff A > 1, log A = 0 iff A = 1, log A = -inf iff *)
(* A = 0, log A <= log B iff A <= B.                                       *)
(***************************************************************************)
EXTENDS Integers, Sequences, FiniteSets, TLC

(***************************************************************************)
(* Bounds of the exploration.                                              *)
(***************************************************************************)
\* largest n_iter a call is made with
MaxIter == 3
\* largest count stored in the sparse data matrix
MaxCount == 2
\* largest numerator / denominator of a represented rational
Cap == 30000

Docs == {0, 1}
Words == {0, 1}
Topics == {0, 1}
\* the raw (un-normalized) weights an initial matrix cell is drawn from
RawWeights == {0, 1}

(***************************************************************************)
(* Rational arithmetic.                                                    *)
(***************************************************************************)
NaN == <<0, 0>>
Over == <<1, 0>>
Zero == <<0, 1>>
One == <<1, 1>>

Abs(x) == IF x < 0 THEN -x ELSE x

RECURSIVE GCD(_, _)
GCD(a, b) == IF b = 0 THEN a ELSE GCD(b, a % b)

IsNum(r) == r[2] > 0

\* n/d in lowest terms, for d > 0; Over when it does not fit Cap
Rat(n, d) ==
    LET g == GCD(Abs(n), d)
        nn == n \div g
        dd == d \div g
    IN IF Abs(nn) > Cap \/ dd > Cap THEN Over ELSE <<nn, dd>>

\* result of an operation one of whose operands is not a number
Bad(a, b) == IF a = NaN \/ b = NaN THEN NaN ELSE Over

RAdd(a, b) ==
    IF IsNum(a) /\ IsNum(b)
    THEN Rat(a[1] * b[2] + b[1] * a[2], a[2] * b[2])
    ELSE Bad(a, b)

RMul(a, b) ==
    IF IsNum(a) /\ IsNum(b) THEN Rat(a[1] * b[1], a[2] * b[2]) ELSE Bad(a, b)

\* a / b; a division by zero yields NaN
RDiv(a, b) ==
    IF IsNum(a) /\ IsNum(b)
    THEN IF b[1] = 0 THEN NaN
         ELSE IF b[1] > 0 THEN Rat(a[1] * b[2], a[2] * b[1])
         ELSE Rat(-(a[1] * b[2]), a[2] * (-b[1]))
    ELSE Bad(a, b)

\* a > b.  A comparison with NaN is false (IEEE); a comparison with Over is
\* taken so that Over reaches the result of the step.
RGt(a, b) ==
    IF IsNum(a) /\ IsNum(b) THEN a[1] * b[2] > b[1] * a[2]
    ELSE a # NaN /\ b # NaN

RLe(a, b) == IsNum(a) /\ IsNum(b) /\ a[1] * b[2] <= b[1] * a[2]

RECURSIVE RPow(_, _)
RPow(a, e) == IF e = 0 THEN One ELSE RMul(a, RPow(a, e - 1))

\* the elements of a finite set of integers in increasing order
RECURSIVE SetToSeq(_)
SetToSeq(S) ==
    IF S = {} THEN <<>>
    ELSE LET mx == CHOOSE x \in S : \A y \in S : y <= x
         IN Append(SetToSeq(S \ {mx}), mx)

\* the topics in the order of range(k)
TopicSeq == SetToSeq(Topics)

\* g[s[1]] + ... + g[s[hi]], accumulated in the order of the sequence s
RECURSIVE RSumSeq(_, _, _)
RSumSeq(s, g, hi) ==
    IF hi = 0 THEN Zero ELSE RAdd(RSumSeq(s, g, hi - 1), g[s[hi]])

\* sum of g[z] over the topics, accumulated in the order of range(k)
SumOverTopics(g) == RSumSeq(TopicSeq, g, Len(TopicSeq))

\* sum of g[j] over j in S, accumulated in increasing order of j
SumOver(S, g) == LET s == SetToSeq(S) IN RSumSeq(s, g, Len(s))

(***************************************************************************)
(* The data: a sparse matrix in COO form, three parallel arrays.           *)
(***************************************************************************)
Coo(rows, cols, vals) == [X_rows |-> rows, X_cols |-> cols, X_vals |-> vals]

\* the sparse matrices a call is made on: a diagonal one, one with a shared
\* word, a full one, and one whose second document is empty
Corpora ==
    { Coo(<<0, 1>>, <<0, 1>>, <<1, 1>>),
      Coo(<<0, 0, 1>>, <<0, 1, 1>>, <<1, MaxCount, 1>>),
      Coo(<<0, 0, 1, 1>>, <<0, 1, 0, 1>>, <<1, 1, 1, MaxCount>>),
      Coo(<<0, 0>>, <<0, 1>>, <<MaxCount, 1>>) }

Nnz(X) == 1..Len(X.X_vals)

(***************************************************************************)
(* plsa_e_step                                                             *)
(***************************************************************************)
\* the two probabilities added where the code multiplies them
EProductAdded(X, p_w_given_z, p_z_given_d, nz_idx, z) ==
    RAdd(p_w_given_z[z][X.X_cols[nz_idx]], p_z_given_d[X.X_rows[nz_idx]][z])

\* v = p_w_given_z[z, w] * p_z_given_d[d, z] of entry nz_idx
EProduct(X, p_w_given_z, p_z_given_d, nz_idx, z) ==
    RMul(p_w_given_z[z][X.X_cols[nz_idx]], p_z_given_d[X.X_rows[nz_idx]][z])

\* the cutoff argument ignored for a fixed one
EStoredFixedCutoff(v, probability_threshold) ==
    IF RGt(v, <<1, 4>>) THEN v ELSE Zero

\* the value the first loop over z writes to p_z_given_wd[nz_idx, z]
EStored(v, probability_threshold) ==
    IF RGt(v, probability_threshold) THEN v ELSE Zero

\* the guard of the division left out
ENormalizeUnguarded(row, norm) == [z \in Topics |-> RDiv(row[z], norm)]

\* the second loop over z: the row divided by norm when norm > 0
ENormalize(row, norm) ==
    [z \in Topics |-> IF RGt(norm, Zero) THEN RDiv(row[z], norm) ELSE row[z]]

\* the else branch left out: a cell whose product does not pass the cutoff
\* keeps what it held
EWriteElseDropped(old, v, probability_threshold) ==
    IF RGt(v, probability_threshold) THEN v ELSE old

\* p_z_given_wd[nz_idx, z] after the if/else of the first loop over z: both
\* branches assign the cell, whatever it held
EWrite(old, v, probability_threshold) == EStored(v, probability_threshold)

plsa_e_step(X, p_w_given_z, p_z_given_d, p_z_given_wd, probability_threshold) ==
    [nz_idx \in Nnz(X) |->
        LET row == [z \in Topics |->
                      EWrite(p_z_given_wd[nz_idx][z],
                             EProduct(X, p_w_given_z, p_z_given_d, nz_idx, z),
                             probability_threshold)]
            norm == SumOverTopics(row)
        IN ENormalize(row, norm)]

(***************************************************************************)
(* plsa_m_step                                                             *)
(***************************************************************************)
\* the count left out: s = p_z_given_wd[nz_idx, z]
MTermUnweighted(X, p_z_given_wd, nz_idx, z) == p_z_given_wd[nz_idx][z]

\* s = x * p_z_given_wd[nz_idx, z]
MTerm(X, p_z_given_wd, nz_idx, z) ==
    RMul(<<X.X_vals[nz_idx], 1>>, p_z_given_wd[nz_idx][z])

\* the resets left out: the accumulation starts from the old values
MClearKept(cell) == cell

\* p_w_given_z[:] = 0.0 and the three other resets: the value every cell of
\* an output array and of an accumulator has when the accumulation starts
MClear(cell) == Zero

\* the accumulation loop over the entries 1..hi: s added to a cell, in entry
\* order, for every entry selected by sel
RECURSIVE MAccumulateUpTo(_, _, _, _, _, _)
MAccumulateUpTo(start, X, p_z_given_wd, z, sel, hi) ==
    IF hi = 0 THEN start
    ELSE LET before == MAccumulateUpTo(start, X, p_z_given_wd, z, sel, hi - 1)
         IN IF sel[hi] THEN RAdd(before, MTerm(X, p_z_given_wd, hi, z))
            ELSE before

MAccumulate(start, X, p_z_given_wd, z, sel) ==
    MAccumulateUpTo(start, X, p_z_given_wd, z, sel, Len(X.X_vals))

\* norm_pwz[z] after the accumulation loop
NormPwz(X, p_z_given_wd, norm_pwz) ==
    [z \in Topics |->
        MAccumulate(MClear(norm_pwz[z]), X, p_z_given_wd, z,
                    [nz_idx \in Nnz(X) |-> TRUE])]

\* the accumulation into norm_pdz[d], over the topics of every entry of d
RECURSIVE NormPdzUpTo(_, _, _, _, _)
NormPdzUpTo(start, X, p_z_given_wd, d, zs) ==
    IF zs = <<>> THEN start
    ELSE MAccumulate(NormPdzUpTo(start, X, p_z_given_wd, d,
                                 SubSeq(zs, 1, Len(zs) - 1)),
                     X, p_z_given_wd, zs[Len(zs)],
                     [nz_idx \in Nnz(X) |-> X.X_rows[nz_idx] = d])

\* norm_pdz[d] after the accumulation loop
NormPdz(X, p_z_given_wd, norm_pdz) ==
    [d \in Docs |->
        NormPdzUpTo(MClear(norm_pdz[d]), X, p_z_given_wd, d, TopicSeq)]

\* the normalization loops left out
MDivideSkipped(cell, norm) == cell

\* the guarded division of the normalization loops
MDivide(cell, norm) == IF RGt(norm, Zero) THEN RDiv(cell, norm) ELSE cell

\* p_w_given_z after plsa_m_step
MTopicWord(X, p_w_given_z, p_z_given_wd, norm_pwz) ==
    [z \in Topics |-> [w \in Words |->
        MDivide(MAccumulate(MClear(p_w_given_z[z][w]), X, p_z_given_wd, z,
                            [nz_idx \in Nnz(X) |-> X.X_cols[nz_idx] = w]),
                norm_pwz[z])]]

\* p_z_given_d after plsa_m_step and after plsa_refit_m_step
MDocTopic(X, p_z_given_d, p_z_given_wd, norm_pdz) ==
    [d \in Docs |-> [z \in Topics |->
        MDivide(MAccumulate(MClear(p_z_given_d[d][z]), X, p_z_given_wd, z,
                            [nz_idx \in Nnz(X) |-> X.X_rows[nz_idx] = d]),
                norm_pdz[d])]]

\* the four arrays plsa_m_step leaves
plsa_m_step(X, p_w_given_z, p_z_given_d, p_z_given_wd, norm_pwz, norm_pdz) ==
    LET nz == NormPwz(X, p_z_given_wd, norm_pwz)
        nd == NormPdz(X, p_z_given_wd, norm_pdz)
    IN [p_w_given_z |-> MTopicWord(X, p_w_given_z, p_z_given_wd, nz),
        p_z_given_d |-> MDocTopic(X, p_z_given_d, p_z_given_wd, nd),
        norm_pwz |-> nz,
        norm_pdz |-> nd]

(***************************************************************************)
(* plsa_refit_m_step: p_w_given_z is an argument it only returns           *)
(***************************************************************************)
\* the unconstrained M-step in its place: the topics are re-estimated too
plsa_refit_m_step_full(X, p_w_given_z, p_z_given_d, p_z_given_wd, norm_pdz) ==
    LET r == plsa_m_step(X, p_w_given_z, p_z_given_d, p_z_given_wd,
                         [z \in Topics |-> Zero], norm_pdz)
    IN [p_w_given_z |-> r.p_w_given_z,
        p_z_given_d |-> r.p_z_given_d,
        norm_pdz |-> r.norm_pdz]

plsa_refit_m_step(X, p_w_given_z, p_z_given_d, p_z_given_wd, norm_pdz) ==
    LET nd == NormPdz(X, p_z_given_wd, norm_pdz)
    IN [p_w_given_z |-> p_w_given_z,
        p_z_given_d |-> MDocTopic(X, p_z_given_d, p_z_given_wd, nd),
        norm_pdz |-> nd]

(***************************************************************************)
(* log_likelihood, kept as the likelihood prod p_w_given_d ^ x             *)
(***************************************************************************)
PwGivenD(X, p_w_given_z, p_z_given_d, nz_idx) ==
    SumOverTopics(
        [z \in Topics |-> EProduct(X, p_w_given_z, p_z_given_d, nz_idx, z)])

RECURSIVE LikUpTo(_, _, _, _)
LikUpTo(X, p_w_given_z, p_z_given_d, nz_idx) ==
    IF nz_idx = 0 THEN One
    ELSE RMul(LikUpTo(X, p_w_given_z, p_z_given_d, nz_idx - 1),
              RPow(PwGivenD(X, p_w_given_z, p_z_given_d, nz_idx),
                   X.X_vals[nz_idx]))

log_likelihood(X, p_w_given_z, p_z_given_d) ==
    LikUpTo(X, p_w_given_z, p_z_given_d, Len(X.X_vals))

(***************************************************************************)
(* The convergence comparison  change / |current| < tolerance              *)
(***************************************************************************)
\* the log-likelihood is a finite float: the likelihood is a positive number
Finite(a) == IsNum(a) /\ a[1] > 0

\* |log cur - log prev| < (tol[1]/tol[2]) * |log cur|, for finite logarithms
\* with log cur # 0 and 0 <= tol <= 1, on the likelihoods:
\*   log cur < 0, cur >= prev:  cur^(q+p) < prev^q
\*   log cur < 0, cur <  prev:  prev^q < cur^(q-p)
\*   log cur > 0, cur >= prev:  cur^(q-p) < prev^q
\*   log cur > 0, cur <  prev:  prev^q < cur^(q+p)
RelChangeBelow(cur, prev, tol) ==
    LET up == RPow(cur, tol[2] + tol[1])
        dn == RPow(cur, tol[2] - tol[1])
        pq == RPow(prev, tol[2])
    IN IF RGt(One, cur)
       THEN IF RLe(prev, cur) THEN RGt(pq, up) ELSE RGt(dn, pq)
       ELSE IF RLe(prev, cur) THEN RGt(pq, dn) ELSE RGt(up, pq)

\* the powers RelChangeBelow compares are representable
RelChangeFits(cur, prev, tol) ==
    /\ RPow(cur, tol[2] + tol[1]) # Over
    /\ RPow(prev, tol[2]) # Over

(***************************************************************************)
(* Arguments of the calls                                                  *)
(***************************************************************************)
InitModes == {"random", "nndsvd", "nmf", "custom", "svd"}
\* no mode is refused
ValidModesAll == InitModes

\* the modes plsa_init recognizes ("custom": a tuple or list of two arrays)
ValidModes == {"random", "nndsvd", "nmf", "custom"}

NIters == 1..MaxIter
NItersPerTest == {1, 2}
Tolerances == {<<1, 2>>}
\* a negative cutoff, no cutoff, a cutoff some products pass, and a cutoff
\* above every product of two probabilities
Thresholds == {<<-1, 1>>, <<0, 1>>, <<1, 4>>, <<2, 1>>}

\* a value no array and no float has: not allocated, not computed
None == <<>>

\* matrices of raw weights, none below lo, with no all-zero row
RawMatrices(R, C, lo) ==
    {M \in [R -> [C -> {u \in RawWeights : u >= lo}]] :
        \A r \in R : \E c \in C : M[r][c] > 0}

\* enstop.utils.normalize(M, axis=1): every row divided by its sum
normalize(M, C) ==
    [r \in DOMAIN M |->
        LET total == SumOver(C, [c \in C |-> <<M[r][c], 1>>])
        IN [c \in C |-> RDiv(<<M[r][c], 1>>, total)]]

\* the pairs (p_z_given_d, p_w_given_z) plsa_init can return for a mode:
\* uniform draws are positive; the factors of the SVD, of the NMF and of the
\* caller are non-negative
plsa_init(init) ==
    LET lo == IF init = "random" THEN 1 ELSE 0
    IN { <<normalize(D, Topics), normalize(W, Words)>> :
            D \in RawMatrices(Docs, Topics, lo),
            W \in RawMatrices(Topics, Words, lo) }

VARIABLES
    pc,                      \* where the call stands
    call,                    \* "none", "fit" or "refit"
    init,                    \* the init argument, until plsa_init has read it
    error,                   \* the exception the call ended with
    outcome,                 \* how the loop ended
    X,                       \* X_rows, X_cols, X_vals
    n_iter, n_iter_per_test, tolerance, e_step_thresh,
    p_w_given_z,             \* topic-word matrix (topics, in plsa_refit)
    p_z_given_d,             \* doc-topic matrix
    p_z_given_wd,            \* posteriors, one row per nonzero entry
    norm_pwz, norm_pdz,      \* normalization accumulators
    previous_log_likelihood,
    current_log_likelihood,
    i,                       \* the loop variable
    tests                    \* the checkpoints evaluated so far

vars == <<pc, call, init, error, outcome, X, n_iter, n_iter_per_test,
          tolerance, e_step_thresh, p_w_given_z, p_z_given_d, p_z_given_wd,
          norm_pwz, norm_pdz, previous_log_likelihood,
          current_log_likelihood, i, tests>>

args == <<X, n_iter, n_iter_per_test, tolerance, e_step_thresh>>
arrays == <<p_w_given_z, p_z_given_d, p_z_given_wd, norm_pwz, norm_pdz>>

\* every cell of a matrix is represented: none is Over
MatrixFits(M) == \A r \in DOMAIN M : \A c \in DOMAIN M[r] : M[r][c] # Over
VectorFits(v) == \A r \in DOMAIN v : v[r] # Over

Init ==
    /\ pc = "idle"
    /\ call = "none"
    /\ init = None
    /\ error = None
    /\ outcome = "none"
    /\ X = None
    /\ n_iter = 0
    /\ n_iter_per_test = 0
    /\ tolerance = None
    /\ e_step_thresh = None
    /\ p_w_given_z = None
    /\ p_z_given_d = None
    /\ p_z_given_wd = None
    /\ norm_pwz = None
    /\ norm_pdz = None
    /\ previous_log_likelihood = None
    /\ current_log_likelihood = None
    /\ i = 0
    /\ tests = <<>>

\* the arguments of a call are bound
Bind(x, n, t, tol, thr) ==
    /\ X' = x
    /\ n_iter' = n
    /\ n_iter_per_test' = t
    /\ tolerance' = tol
    /\ e_step_thresh' = thr

\* plsa_fit is entered: its arguments are bound
FitCall ==
    /\ pc = "idle"
    /\ \E x \in Corpora, mode \in InitModes, n \in NIters,
          t \in NItersPerTest, tol \in Tolerances, thr \in Thresholds :
        /\ init' = mode
        /\ Bind(x, n, t, tol, thr)
    /\ call' = "fit"
    /\ pc' = "init"
    /\ UNCHANGED <<error, outcome, arrays, previous_log_likelihood,
                   current_log_likelihood, i, tests>>

\* the else branch of plsa_init:
\* raise ValueError("Unrecognized init {}".format(init))
RaiseValueError ==
    /\ pc' = "raised"
    /\ error' = <<"ValueError", init>>
    /\ UNCHANGED <<init, arrays, previous_log_likelihood>>

\* plsa_fit from plsa_init to the first iteration of plsa_fit_inner:
\* plsa_init, X.tocoo(), the scratch buffers and the baseline
\* log-likelihood.  plsa_fit_inner is not given the mode.
PlsaInit ==
    /\ pc = "init"
    /\ IF init \notin ValidModes
       THEN RaiseValueError
       ELSE \E pair \in plsa_init(init) :
            /\ p_z_given_d' = pair[1]
            /\ p_w_given_z' = pair[2]
            /\ p_z_given_wd' = [nz_idx \in Nnz(X) |-> [z \in Topics |-> Zero]]
            /\ norm_pwz' = [z \in Topics |-> Zero]
            /\ norm_pdz' = [d \in Docs |-> Zero]
            /\ previous_log_likelihood' = log_likelihood(X, pair[2], pair[1])
            /\ previous_log_likelihood' # Over
            /\ pc' = "e_step"
            /\ init' = None
            /\ error' = None
    /\ UNCHANGED <<call, args, outcome, current_log_likelihood, i, tests>>

\* plsa_e_step, called by both loops
EStep ==
    /\ pc = "e_step"
    /\ p_z_given_wd' = plsa_e_step(X, p_w_given_z, p_z_given_d, p_z_given_wd,
                                   e_step_thresh)
    /\ MatrixFits(p_z_given_wd')
    /\ pc' = "m_step"
    /\ UNCHANGED <<call, init, error, outcome, args, p_w_given_z, p_z_given_d,
                   norm_pwz, norm_pdz, previous_log_likelihood,
                   current_log_likelihood, i, tests>>

\* the end of the loop body: the next iteration, or the return after the
\* last one
NextIteration ==
    IF i + 1 < n_iter
    THEN /\ i' = i + 1
         /\ pc' = "e_step"
         /\ outcome' = outcome
    ELSE /\ i' = i
         /\ pc' = "done"
         /\ outcome' = "MaxIterReached"

\* i % n_iter_per_test == 0
TestDue == i % n_iter_per_test = 0

\* plsa_m_step in plsa_fit_inner, and the rest of the loop body when no
\* test is due
MStep ==
    /\ pc = "m_step"
    /\ call = "fit"
    /\ LET r == plsa_m_step(X, p_w_given_z, p_z_given_d, p_z_given_wd,
                            norm_pwz, norm_pdz)
       IN /\ p_w_given_z' = r.p_w_given_z
          /\ p_z_given_d' = r.p_z_given_d
          /\ norm_pwz' = r.norm_pwz
          /\ norm_pdz' = r.norm_pdz
    /\ MatrixFits(p_w_given_z') /\ MatrixFits(p_z_given_d')
    /\ VectorFits(norm_pwz') /\ VectorFits(norm_pdz')
    /\ IF TestDue
       THEN pc' = "test" /\ UNCHANGED <<i, outcome>>
       ELSE NextIteration
    /\ UNCHANGED <<call, init, error, args, p_z_given_wd,
                   previous_log_likelihood, current_log_likelihood, tests>>

\* the record of one checkpoint: the iterations completed, the two
\* log-likelihoods compared and whether the loop stopped there
Checkpoint(cur, stop) ==
    [iterations |-> i + 1, current |-> cur,
     previous |-> previous_log_likelihood, stop |-> stop]

\* the break of the loop
Break(cur) ==
    /\ pc' = "done"
    /\ outcome' = "Converged"
    /\ tests' = Append(tests, Checkpoint(cur, TRUE))
    /\ UNCHANGED <<i, error, previous_log_likelihood>>

\* the else branch without its assignment: the loop goes on and the
\* baseline stays
ContinueNotStored(cur) ==
    /\ tests' = Append(tests, Checkpoint(cur, FALSE))
    /\ NextIteration
    /\ UNCHANGED <<error, previous_log_likelihood>>

\* the else branch: previous_log_likelihood = current_log_likelihood
Continue(cur) ==
    /\ previous_log_likelihood' = cur
    /\ tests' = Append(tests, Checkpoint(cur, FALSE))
    /\ NextIteration
    /\ UNCHANGED error

\* the convergence test of plsa_fit_inner.  The division is a Python float
\* division compiled by numba.njit with its default error model: a zero
\* divisor raises ZeroDivisionError.  The function is compiled fastmath, so
\* a comparison one of whose operands is infinite or NaN has no defined
\* result: the loop may break or go on.
FitTest ==
    /\ pc = "test"
    /\ call = "fit"
    /\ LET cur == log_likelihood(X, p_w_given_z, p_z_given_d)
       IN /\ cur # Over
          /\ current_log_likelihood' = cur
          /\ IF cur = One
             THEN /\ pc' = "raised"
                  /\ error' = <<"ZeroDivisionError">>
                  /\ tests' = Append(tests, Checkpoint(cur, FALSE))
                  /\ UNCHANGED <<i, outcome, previous_log_likelihood>>
             ELSE IF ~Finite(cur) \/ ~Finite(previous_log_likelihood)
             THEN Break(cur) \/ Continue(cur)
             ELSE /\ RelChangeFits(cur, previous_log_likelihood, tolerance)
                  /\ IF RelChangeBelow(cur, previous_log_likelihood, tolerance)
                     THEN Break(cur)
                     ELSE Continue(cur)
    /\ UNCHANGED <<call, init, args, arrays>>

\* the topics plsa_refit is given: row-stochastic matrices, and matrices of
\* the same supports whose positive cells are 2 (the function takes any array)
TopicsGiven ==
    {normalize(W, Words) : W \in RawMatrices(Topics, Words, 0)}
    \cup {[z \in Topics |-> [w \in Words |-> <<2 * W[z][w], 1>>]] :
              W \in RawMatrices(Topics, Words, 0)}

\* plsa_refit up to its first iteration: uniform draws for p_z_given_d,
\* normalized, the scratch buffers and the baseline log-likelihood
RefitCall ==
    /\ pc = "idle"
    /\ \E x \in Corpora, topics \in TopicsGiven, n \in NIters,
          t \in NItersPerTest, tol \in Tolerances, thr \in Thresholds,
          D \in RawMatrices(Docs, Topics, 1) :
        /\ call' = "refit"
        /\ Bind(x, n, t, tol, thr)
        /\ p_w_given_z' = topics
        /\ p_z_given_d' = normalize(D, Topics)
        /\ p_z_given_wd' = [nz_idx \in Nnz(x) |-> [z \in Topics |-> Zero]]
        /\ norm_pdz' = [d \in Docs |-> Zero]
        /\ previous_log_likelihood' =
               log_likelihood(x, topics, p_z_given_d')
        /\ previous_log_likelihood' # Over
        /\ pc' = "e_step"
    /\ UNCHANGED <<init, error, outcome, norm_pwz, current_log_likelihood, i,
                   tests>>

\* plsa_refit_m_step in plsa_refit, and the rest of the loop body when no
\* test is due
RefitMStep ==
    /\ pc = "m_step"
    /\ call = "refit"
    /\ LET r == plsa_refit_m_step(X, p_w_given_z, p_z_given_d, p_z_given_wd,
                                  norm_pdz)
       IN /\ p_w_given_z' = r.p_w_given_z
          /\ p_z_given_d' = r.p_z_given_d
          /\ norm_pdz' = r.norm_pdz
    /\ MatrixFits(p_z_given_d') /\ VectorFits(norm_pdz')
    /\ IF TestDue
       THEN pc' = "test" /\ UNCHANGED <<i, outcome>>
       ELSE NextIteration
    /\ UNCHANGED <<call, init, error, args, p_z_given_wd, norm_pwz,
                   previous_log_likelihood, current_log_likelihood, tests>>

\* a checkpoint whose log-likelihood is not positive: nothing is compared
\* and nothing is stored
SkipTest(cur) ==
    /\ tests' = Append(tests, Checkpoint(cur, FALSE))
    /\ NextIteration
    /\ UNCHANGED <<error, previous_log_likelihood>>

\* the test of plsa_fit_inner, which has no such guard
RefitGuardDropped(cur) == TRUE

\* if current_log_likelihood > 0
RefitGuard(cur) == RGt(cur, One)

\* the convergence test of plsa_refit (not compiled fastmath: an infinite
\* change compares as IEEE says, not below the tolerance)
RefitTest ==
    /\ pc = "test"
    /\ call = "refit"
    /\ LET cur == log_likelihood(X, p_w_given_z, p_z_given_d)
       IN /\ cur # Over
          /\ current_log_likelihood' = cur
          /\ IF RefitGuard(cur)
             THEN IF ~Finite(previous_log_likelihood)
                  THEN Continue(cur)
                  ELSE /\ RelChangeFits(cur, previous_log_likelihood, tolerance)
                       /\ IF RelChangeBelow(cur, previous_log_likelihood,
                                            tolerance)
                          THEN Break(cur)
                          ELSE Continue(cur)
             ELSE SkipTest(cur)
    /\ UNCHANGED <<call, init, args, arrays>>

Next ==
    \/ FitCall
    \/ PlsaInit
    \/ RefitCall
    \/ EStep
    \/ MStep
    \/ RefitMStep
    \/ FitTest
    \/ RefitTest

Spec == Init /\ [][Next]_vars

(***************************************************************************)
(* Properties                                                              *)
(***************************************************************************)
RowSum(M, r) == SumOver(DOMAIN M[r], M[r])
RowIsZero(M, r) == \A c \in DOMAIN M[r] : M[r][c] = Zero
AllZero(M) == \A r \in DOMAIN M : RowIsZero(M, r)

ValueErrorRaised == pc = "raised" /\ error[1] = "ValueError"
ZeroDivisionRaised == pc = "raised" /\ error[1] = "ZeroDivisionError"

\* at least one M-step of the running fit has completed: the matrices are
\* those the last M-step left
AfterFitMStep ==
    /\ call = "fit"
    /\ \/ pc \in {"test", "done"}
       \/ pc \in {"e_step", "m_step"} /\ i > 0
       \/ ZeroDivisionRaised

\* C1 as stated: after every completed M-step of a fit every row of the
\* topic-word matrix and every row of the doc-topic matrix sums to 1.
C1_RowsSumToOne ==
    AfterFitMStep =>
        /\ \A z \in Topics : RowSum(p_w_given_z, z) = One
        /\ \A d \in Docs : RowSum(p_z_given_d, d) = One

\* C1 as amended: after every completed M-step of a fit, a row of the
\* topic-word (doc-topic) matrix sums to 1 when the normalization
\* accumulator of its topic (document) is positive, and is identically zero
\* when that accumulator is 0.
C1_RowsSumToOneOrZero ==
    AfterFitMStep =>
        /\ \A z \in Topics :
              IF RGt(norm_pwz[z], Zero)
              THEN RowSum(p_w_given_z, z) = One
              ELSE norm_pwz[z] = Zero /\ RowIsZero(p_w_given_z, z)
        /\ \A d \in Docs :
              IF RGt(norm_pdz[d], Zero)
              THEN RowSum(p_z_given_d, d) = One
              ELSE norm_pdz[d] = Zero /\ RowIsZero(p_z_given_d, d)

\* a returned pair with a zero topic row beside a topic row that sums to 1,
\* and a zero document row beside a document row that sums to 1
C1_Witness ==
    /\ AfterFitMStep /\ pc = "done"
    /\ \E z, y \in Topics :
          RowIsZero(p_w_given_z, z) /\ RowSum(p_w_given_z, y) = One
    /\ \E d, e \in Docs :
          RowIsZero(p_z_given_d, d) /\ RowSum(p_z_given_d, e) = One

\* the threshold is above every product of two probabilities
DegenerateThreshold == call = "fit" /\ pc \notin {"idle", "init"}
                       /\ ~ValueErrorRaised /\ RGt(e_step_thresh, One)

\* C2 as stated: under a threshold above every attainable product the E-step
\* sets all posteriors to zero and the M-step that follows leaves the
\* topic-word and the doc-topic matrix as they were before it.
C2_MStepLeavesUnchanged ==
    [][(DegenerateThreshold /\ pc = "m_step")
          => /\ AllZero(p_z_given_wd)
             /\ p_w_given_z' = p_w_given_z
             /\ p_z_given_d' = p_z_given_d]_vars

\* C2 as amended: under a threshold above every attainable product the
\* E-step sets all posteriors to zero, and the M-step that follows sets
\* every cell of both matrices and of both accumulators to 0: no cell is
\* NaN, and neither step raises.
C2_MStepZeroes ==
    DegenerateThreshold =>
        /\ pc = "m_step" => AllZero(p_z_given_wd)
        /\ AfterFitMStep =>
              /\ AllZero(p_w_given_z) /\ AllZero(p_z_given_d)
              /\ \A z \in Topics : norm_pwz[z] = Zero
              /\ \A d \in Docs : norm_pdz[d] = Zero
        /\ pc # "raised"

\* the M-step has run on all-zero posteriors, from matrices that were not zero
C2_Witness ==
    /\ DegenerateThreshold /\ pc = "test" /\ i = 0
    /\ AllZero(p_z_given_wd) /\ AllZero(p_w_given_z) /\ AllZero(p_z_given_d)

\* a fit whose init mode plsa_init accepted
FitRan == call = "fit" /\ pc \notin {"idle", "init"} /\ ~ValueErrorRaised

\* the relative change of a checkpoint is a number below the tolerance
TestPassed(t) ==
    /\ Finite(t.current) /\ Finite(t.previous) /\ t.current # One
    /\ RelChangeBelow(t.current, t.previous, tolerance)

\* C3 as stated: a fit call with a valid init mode runs at most n_iter
\* iterations and ends in exactly one of two ways, Converged (stopped at a
\* checkpoint whose relative change was below the tolerance) or
\* MaxIterReached (n_iter iterations ran and no checkpoint passed the test);
\* it never ends by raising.
C3_ConvergedOrMaxIter ==
    FitRan =>
        /\ i < n_iter
        /\ pc # "raised"
        /\ pc = "done" =>
              \/ /\ outcome = "Converged"
                 /\ tests # <<>>
                 /\ tests[Len(tests)].stop
                 /\ TestPassed(tests[Len(tests)])
              \/ /\ outcome = "MaxIterReached"
                 /\ i + 1 = n_iter
                 /\ \A j \in 1..Len(tests) :
                       ~tests[j].stop /\ ~TestPassed(tests[j])

\* iterations completed when checkpoint j was evaluated, 0 for the baseline
TestAt(j) == IF j = 0 THEN 0 ELSE tests[j].iterations

\* C4 as stated: in fit every test is evaluated n_iter_per_test iterations
\* after the previous test, the first one n_iter_per_test iterations after
\* the baseline, so that it compares against the log-likelihood of
\* n_iter_per_test iterations earlier.
C4_TestEveryNIterPerTest ==
    FitRan =>
        \A j \in 1..Len(tests) : TestAt(j) - TestAt(j - 1) = n_iter_per_test

\* the value previous_log_likelihood had right after checkpoint j
PreviousAfter(j) ==
    IF j < Len(tests) THEN tests[j + 1].previous ELSE previous_log_likelihood

\* C5: in refit a checkpoint whose log-likelihood is <= 0 neither stops the
\* loop nor changes previous_log_likelihood (the test is evaluated only at
\* a checkpoint whose log-likelihood is > 0), and a refit all of whose
\* checkpoints are <= 0 ends after exactly n_iter iterations.
C5_RefitSkipsNonPositive ==
    call = "refit" =>
        /\ \A j \in 1..Len(tests) :
              ~RGt(tests[j].current, One) =>
                  ~tests[j].stop /\ PreviousAfter(j) = tests[j].previous
        /\ (pc = "done" /\ \A j \in 1..Len(tests) : ~RGt(tests[j].current, One))
              => outcome = "MaxIterReached" /\ i + 1 = n_iter

\* a refit that returned after two checkpoints, none positive, the last of
\* which differed from the baseline and did not replace it
C5_Witness ==
    /\ call = "refit" /\ pc = "done" /\ Len(tests) = 2
    /\ \A j \in 1..Len(tests) : ~RGt(tests[j].current, One)
    /\ tests[2].current # tests[2].previous
    /\ previous_log_likelihood = tests[1].previous

\* C6: no step of a refit changes the topic-word matrix it was given (nor
\* the data): every cell keeps its value of the start of the call.
C6_RefitKeepsTopics ==
    [][call = "refit" => p_w_given_z' = p_w_given_z /\ X' = X]_vars

\* a refit that returned after two iterations and moved p_z_given_d
C6_Witness ==
    /\ call = "refit" /\ pc = "done" /\ i >= 1
    /\ \E d \in Docs, z \in Topics : p_z_given_d[d][z] # <<1, 2>>

\* C7: a fit called with an init mode outside random, nndsvd, nmf and a
\* custom pair raises ValueError in plsa_init: no matrix and no buffer is
\* allocated, no log-likelihood is computed, no E-step, M-step or test runs.
C7_InvalidModeRaises ==
    [][(pc = "init" /\ init \notin {"random", "nndsvd", "nmf", "custom"})
          => /\ pc' = "raised"
             /\ error' = <<"ValueError", init>>
             /\ arrays' = <<None, None, None, None, None>>
             /\ previous_log_likelihood' = None
             /\ current_log_likelihood' = None
             /\ tests' = <<>> /\ outcome' = "none" /\ i' = 0]_vars

\* the call has ended with the ValueError, nothing allocated
C7_Witness ==
    /\ ValueErrorRaised /\ error[2] = "svd"
    /\ p_w_given_z = None /\ p_z_given_d = None /\ p_z_given_wd = None

\* the E-step that never thresholds: every product is stored, and the row
\* is divided by the sum of the products when that sum is positive
EStepUnthresholded ==
    [nz_idx \in Nnz(X) |->
        LET v == [z \in Topics |->
                    EProduct(X, p_w_given_z, p_z_given_d, nz_idx, z)]
            total == SumOver(Topics, v)
        IN [z \in Topics |->
              IF RGt(total, Zero) THEN RDiv(v[z], total) ELSE v[z]]]

\* C8: the E-step run with probability_threshold = 0 writes the posterior
\* matrix of the E-step that never thresholds.
C8_ZeroThresholdEquivalence ==
    (pc = "m_step" /\ e_step_thresh = Zero)
        => p_z_given_wd = EStepUnthresholded

\* an E-step under threshold 0 that wrote a zero row, and a row with a zero
\* beside a positive cell
C8_Witness ==
    /\ pc = "m_step" /\ e_step_thresh = Zero
    /\ \E nz_idx \in Nnz(X) : RowIsZero(p_z_given_wd, nz_idx)
    /\ \E nz_idx \in Nnz(X), z, y \in Topics :
          p_z_given_wd[nz_idx][z] = Zero /\ RGt(p_z_given_wd[nz_idx][y], Zero)

\* a posterior row is a probability distribution over the topics
IsDistribution(row) ==
    /\ \A z \in Topics : IsNum(row[z]) /\ ~RGt(Zero, row[z])
    /\ SumOver(Topics, row) = One

\* some product of entry nz_idx exceeds the threshold
SomeProductAbove(nz_idx) ==
    \E z \in Topics :
        RGt(EProduct(X, p_w_given_z, p_z_given_d, nz_idx, z), e_step_thresh)

\* some product of entry nz_idx exceeds the threshold and is positive
SomePositiveProductAbove(nz_idx) ==
    \E z \in Topics :
        LET v == EProduct(X, p_w_given_z, p_z_given_d, nz_idx, z)
        IN RGt(v, e_step_thresh) /\ RGt(v, Zero)

\* C9 as stated: after every E-step each posterior row is a probability
\* distribution over the topics or identically zero, no cell is the result
\* of a division by zero, and the row is identically zero exactly when no
\* product of the entry exceeds the threshold.
C9_PosteriorRows ==
    pc = "m_step" =>
        \A nz_idx \in Nnz(X) :
            /\ \A z \in Topics : p_z_given_wd[nz_idx][z] # NaN
            /\ IsDistribution(p_z_given_wd[nz_idx])
                  \/ RowIsZero(p_z_given_wd, nz_idx)
            /\ RowIsZero(p_z_given_wd, nz_idx) <=> ~SomeProductAbove(nz_idx)

\* C9 as amended: after every E-step each posterior row is a probability
\* distribution over the topics or identically zero, no cell is the result
\* of a division by zero, and the row is identically zero exactly when no
\* product of the entry is both positive and above the threshold (for a
\* threshold >= 0: exactly when no product exceeds the threshold).
C9_PosteriorRowsPositive ==
    pc = "m_step" =>
        \A nz_idx \in Nnz(X) :
            /\ \A z \in Topics : p_z_given_wd[nz_idx][z] # NaN
            /\ IsDistribution(p_z_given_wd[nz_idx])
                  \/ RowIsZero(p_z_given_wd, nz_idx)
            /\ RowIsZero(p_z_given_wd, nz_idx)
                  <=> ~SomePositiveProductAbove(nz_idx)
            /\ ~RGt(Zero, e_step_thresh)
                  => (RowIsZero(p_z_given_wd, nz_idx)
                         <=> ~SomeProductAbove(nz_idx))

\* an E-step that left a zero row beside a row that is a distribution, under
\* a threshold that is not negative
C9_Witness ==
    /\ pc = "m_step" /\ ~RGt(Zero, e_step_thresh)
    /\ \E nz_idx, other \in Nnz(X) :
          /\ RowIsZero(p_z_given_wd, nz_idx)
          /\ IsDistribution(p_z_given_wd[other])
          /\ \E z \in Topics : p_z_given_wd[other][z] \notin {Zero, One}

\* C10 as stated: in a fit the log-likelihoods of successive checkpoints,
\* from the baseline on, never decrease, whatever the threshold.
C10_LikelihoodNeverDecreases ==
    FitRan =>
        \A j \in 1..Len(tests) : RLe(tests[j].previous, tests[j].current)

\* C10 as amended: in a fit whose e-step threshold is not positive (no
\* positive product is zeroed) the log-likelihoods of successive
\* checkpoints, from the baseline on, never decrease.
C10_LikelihoodNeverDecreasesUnthresholded ==
    (FitRan /\ ~RGt(e_step_thresh, Zero)) =>
        \A j \in 1..Len(tests) : RLe(tests[j].previous, tests[j].current)

\* a fit under threshold 0 whose log-likelihood rose at two checkpoints
C10_Witness ==
    /\ FitRan /\ e_step_thresh = Zero /\ Len(tests) >= 2
    /\ \A j \in 1..2 :
          /\ Finite(tests[j].previous)
          /\ RGt(tests[j].current, tests[j].previous)

\* the fit loop is at a checkpoint where some observed entry has modeled
\* probability exactly 0: the likelihood is 0, its logarithm is -inf
NegInfCheckpoint ==
    /\ pc = "test" /\ call = "fit"
    /\ \E nz_idx \in Nnz(X) :
          PwGivenD(X, p_w_given_z, p_z_given_d, nz_idx) = Zero

\* some checkpoint of the running fit evaluated to -inf
NegInfSeen ==
    call = "fit" /\ \E j \in 1..Len(tests) : tests[j].current = Zero

\* C11: when the modeled probability of some observed entry is exactly 0 the
\* log-likelihood evaluator raises nothing and returns -inf; that value is
\* the operand of the convergence comparison of the fit loop, against the
\* baseline as it stands, and is stored as the baseline when the loop does
\* not break; the matrices are left as the M-step wrote them, and the fit
\* raises nothing afterwards: it is in its loop with iterations left or
\* has returned.
C11_NegInfPropagates ==
    /\ [][NegInfCheckpoint =>
            /\ log_likelihood(X, p_w_given_z, p_z_given_d) = Zero
            /\ current_log_likelihood' = Zero
            /\ error' = None
            /\ Len(tests') = Len(tests) + 1
            /\ tests'[Len(tests')].current = Zero
            /\ tests'[Len(tests')].previous = previous_log_likelihood
            /\ UNCHANGED arrays
            /\ \/ pc' = "done" /\ tests'[Len(tests')].stop
               \/ /\ ~tests'[Len(tests')].stop
                  /\ previous_log_likelihood' = Zero
                  /\ pc' \in {"e_step", "done"}]_vars
    /\ [](NegInfSeen =>
            /\ error = None
            /\ \/ pc = "done" /\ outcome \in {"Converged", "MaxIterReached"}
               \/ pc \in {"e_step", "m_step", "test"} /\ i < n_iter)

\* a fit that returned after a checkpoint of log-likelihood -inf, reached
\* from a finite baseline, was stored as the new baseline
C11_Witness ==
    /\ call = "fit" /\ pc = "done" /\ error = None
    /\ previous_log_likelihood = Zero
    /\ \E j \in 1..Len(tests) :
          /\ tests[j].current = Zero
          /\ Finite(tests[j].previous)
          /\ ~tests[j].stop

\* buffers full of a value left by earlier work: every cell holds 1
StalePosteriors == [nz_idx \in Nnz(X) |-> [z \in Topics |-> One]]
StaleTopicWord == [z \in Topics |-> [w \in Words |-> One]]
StaleDocTopic == [d \in Docs |-> [z \in Topics |-> One]]
StaleNormPwz == [z \in Topics |-> One]
StaleNormPdz == [d \in Docs |-> One]

\* the posteriors an E-step writes from the current matrices, whatever the
\* buffer held
FreshPosteriors ==
    plsa_e_step(X, p_w_given_z, p_z_given_d, StalePosteriors, e_step_thresh)

\* the step is the M-step of the running call computed from the current
\* posteriors alone, whatever the matrices and the accumulators held
FreshMStep ==
    IF call = "fit"
    THEN LET r == plsa_m_step(X, StaleTopicWord, StaleDocTopic, p_z_given_wd,
                              StaleNormPwz, StaleNormPdz)
         IN /\ p_w_given_z' = r.p_w_given_z
            /\ p_z_given_d' = r.p_z_given_d
            /\ norm_pwz' = r.norm_pwz
            /\ norm_pdz' = r.norm_pdz
    ELSE LET r == plsa_refit_m_step(X, p_w_given_z, StaleDocTopic,
                                    p_z_given_wd, StaleNormPdz)
         IN /\ p_w_given_z' = p_w_given_z
            /\ p_z_given_d' = r.p_z_given_d
            /\ norm_pdz' = r.norm_pdz

\* C12: in every iteration of fit and of refit the E-step is complete before
\* the M-step starts; the E-step rewrites every posterior cell from the
\* current matrices and the M-step resets its matrices and accumulators, so
\* the M-step reads the posteriors of its own iteration's E-step and nothing
\* of an earlier iteration survives; nothing touches the matrices between an
\* M-step and the E-step of the next iteration; a checkpoint is evaluated
\* only after the M-step of its iteration, on the matrices that M-step wrote.
C12_EStepBeforeMStep ==
    [][/\ pc = "e_step" =>
            /\ pc' = "m_step"
            /\ p_z_given_wd' = FreshPosteriors
            /\ UNCHANGED <<p_w_given_z, p_z_given_d, norm_pwz, norm_pdz,
                           i, tests>>
       /\ pc = "m_step" =>
            /\ p_z_given_wd = FreshPosteriors
            /\ FreshMStep
            /\ UNCHANGED <<p_z_given_wd, tests>>
            /\ pc' \in {"test", "e_step", "done"}
            /\ pc' = "e_step" => i' = i + 1
            /\ pc' = "test" => i' = i
       /\ pc = "test" =>
            /\ UNCHANGED arrays
            /\ tests' = Append(tests, tests'[Len(tests')])
            /\ tests'[Len(tests')].iterations = i + 1
            /\ tests'[Len(tests')].current =
                   log_likelihood(X, p_w_given_z, p_z_given_d)
            /\ pc' \in {"e_step", "done", "raised"}
            /\ pc' = "e_step" => i' = i + 1
       /\ pc' = "m_step" => pc = "e_step"
       /\ pc' = "test" => pc = "m_step"
       /\ tests' # tests => pc = "test"]_vars

\* the second iteration of a fit is at its checkpoint: its E-step zeroed a
\* cell beside a positive one and wrote a proper fraction, and its M-step
\* moved the log-likelihood away from that of the first iteration's
\* checkpoint
C12_Witness ==
    /\ call = "fit" /\ pc = "test" /\ i = 1 /\ Len(tests) = 1
    /\ ~RGt(Zero, e_step_thresh)
    /\ \E nz_idx \in Nnz(X), z, y \in Topics :
          /\ p_z_given_wd[nz_idx][z] = Zero
          /\ RGt(p_z_given_wd[nz_idx][y], Zero)
    /\ \E nz_idx \in Nnz(X), z \in Topics :
          p_z_given_wd[nz_idx][z] \notin {Zero, One}
    /\ log_likelihood(X, p_w_given_z, p_z_given_d) # tests[1].current

\* the M-step of a fit whose threshold is not negative is about to run
MStepOfThresholdedFit ==
    call = "fit" /\ pc = "m_step" /\ ~RGt(Zero, e_step_thresh)

\* C13: in a fit with threshold >= 0 a cell of the topic-word matrix or of
\* the doc-topic matrix that is 0 before an M-step (as initialized, or as
\* the previous M-step left it) is 0 after it, hence after every later
\* M-step; a topic and a document whose normalization accumulator the
\* previous M-step left at 0 have an all-zero row before and after the
\* M-step, and the accumulator is 0 again.
C13_ZeroIsAbsorbing ==
    [][MStepOfThresholdedFit =>
        /\ \A z \in Topics, w \in Words :
              p_w_given_z[z][w] = Zero => p_w_given_z'[z][w] = Zero
        /\ \A d \in Docs, z \in Topics :
              p_z_given_d[d][z] = Zero => p_z_given_d'[d][z] = Zero
        /\ \A z \in Topics :
              (i > 0 /\ norm_pwz[z] = Zero) =>
                 /\ RowIsZero(p_w_given_z, z)
                 /\ RowIsZero(p_w_given_z', z)
                 /\ norm_pwz'[z] = Zero
        /\ \A d \in Docs :
              (i > 0 /\ norm_pdz[d] = Zero) =>
                 /\ RowIsZero(p_z_given_d, d)
                 /\ RowIsZero(p_z_given_d', d)
                 /\ norm_pdz'[d] = Zero]_vars

\* the second M-step of a fit with threshold >= 0 has run: a document whose
\* accumulator is 0 has an all-zero row, and a topic keeps a zero cell
\* beside a positive one
C13_Witness ==
    /\ call = "fit" /\ pc = "test" /\ i >= 1
    /\ ~RGt(Zero, e_step_thresh)
    /\ \E d \in Docs : norm_pdz[d] = Zero /\ RowIsZero(p_z_given_d, d)
    /\ \E z \in Topics, w, u \in Words :
          p_w_given_z[z][w] = Zero /\ RGt(p_w_given_z[z][u], Zero)

====
